---- MODULE Spec2Model ----
(***************************************************************************)
(* cmirror: the mirror benchmarking engine (src/utils.rs), the timestamped  *)
(* backup store with the source adapters (src/utils.rs, src/sources/*.rs)  *)
(* and the commands (src/main.rs), as state machines.                      *)
(***************************************************************************)
EXTENDS Integers, Sequences, FiniteSets, TLC

(***************************************************************************)
(* Bounds of the model.                                                    *)
(***************************************************************************)
\* longest candidate list handed to benchmark_mirrors
MaxMirrors == 3
\* greatest elapsed time (ms) a probe measures
MaxLatency == 1

\* operations (set_source, current_url, restore, backup_file, an edit of the
\* file) in a run
MaxOps == 3
\* the clock (epoch seconds) at the start of a run, and how far it advances;
\* the window lies across a change in the number of decimal digits of the
\* timestamp format!("{}.bak.{}", file_name, timestamp) writes
FirstSecond == 999999998
MaxTicks == 2

\* u64::MAX, the latency of an unreachable mirror. It is only ever compared,
\* so the greatest integer TLC represents stands for it.
U64_MAX == 2147483647

VARIABLES
    mirrors,    \* benchmark_mirrors: the candidate list it was called with
    outcome,    \* what the network answers to the probe of each candidate
    bpc,        \* benchmark_mirrors: "idle", "joining" (inside join_all), "returned"
    task,       \* per probe future: "unpolled", "inflight", "done"
    res,        \* per probe future: the BenchmarkResult it resolved to
    finished,   \* indices of the probe futures in the order they completed
    progress,   \* the progress bar's position (pb.inc)
    output,     \* the Vec benchmark_mirrors returned
    tool,       \* the adapter get_manager built: "pip", "npm", "cargo", "docker", "apt"
    distro,     \* the distro AptManager::new detected
    dir,        \* whether the parent directory of config_path() exists
    live,       \* the file at config_path(): [exists, text]
    snaps,      \* the backups beside it: timestamp of <name>.bak.<timestamp> -> text
    now,        \* SystemTime::now(), in seconds since the epoch
    hist,       \* the last operations on the adapter, oldest first
    ops,        \* how many operations the run has made
    env,        \* what go and brew work on: the go command and its GOPROXY
                \* setting, the process's HOMEBREW_API_DOMAIN
    cmd,        \* main: the command line, [command, name, source, fastest]
    cpc,        \* main: "idle", "benchmark" (the handler awaits benchmark_mirrors), "done"
    exit,       \* main: the Result the handler returned
    shown,      \* main: the rows the handler printed
    before      \* the file system when the command started

benchVars == <<mirrors, outcome, bpc, task, res, finished, progress, output>>
storeVars == <<tool, distro, dir, live, snaps, now, hist, ops, env>>
cliVars == <<cmd, cpc, exit, shown, before>>
vars == <<mirrors, outcome, bpc, task, res, finished, progress, output,
          tool, distro, dir, live, snaps, now, hist, ops, env,
          cmd, cpc, exit, shown, before>>

(***************************************************************************)
(* types.rs                                                                *)
(***************************************************************************)
Mirror(name, url) == [name |-> name, url |-> url]

BenchmarkResult(mirror, latency_ms) == [mirror |-> mirror, latency_ms |-> latency_ms]

\* the i-th entry of the catalog the candidate lists are drawn from
Candidate(i) ==
    CASE i = 1 -> Mirror("Official", "https://a.test")
      [] i = 2 -> Mirror("Mirror1", "https://b.test/")
      [] i = 3 -> Mirror("Mirror2", "https://c.test")
      [] OTHER -> Mirror("Mirror" \o ToString(i - 1),
                         "https://m" \o ToString(i - 1) \o ".test")

Catalog == {Candidate(i) : i \in 1..MaxMirrors}

\* candidate lists of length n: the catalog's entries in order, where an
\* entry may be repeated in place of a later one
CandidateLists(n) ==
    {l \in [1..n -> Catalog] : \A i \in 1..n : l[i] \in {Candidate(i), Candidate(1)}}

NoResult == BenchmarkResult(Mirror("", ""), -1)

(***************************************************************************)
(* What a probed server can do. kind "ok": a response with a success       *)
(* status after ms; "status": a response with a non-success status after   *)
(* ms; "err": the transport fails (refused, DNS, TLS); "silent": the       *)
(* target never answers.                                                   *)
(***************************************************************************)
Outcomes ==
    [kind : {"ok"}, ms : 0..MaxLatency]
        \cup [kind : {"status", "err", "silent"}, ms : {0}]

\* Client::builder().timeout(REQUEST_TIMEOUT): a request that got no answer
\* resolves to Err when the timeout elapses.
ClientHasTimeout == TRUE

\* request.await has produced Ok(resp) or Err(_)
RequestResolvesNoTimeout(o) == o.kind # "silent"

RequestResolves(o) == o.kind # "silent" \/ ClientHasTimeout

\* check_latency: the match on request.await
LatencyOfIgnoringStatus(o) == IF o.kind \in {"ok", "status"} THEN o.ms ELSE U64_MAX

LatencyOf(o) == IF o.kind = "ok" THEN o.ms ELSE U64_MAX

check_latency(mirror, o) == BenchmarkResult(mirror, LatencyOf(o))

(***************************************************************************)
(* results.sort_by_key(|r| r.latency_ms): a stable sort.                   *)
(***************************************************************************)
RECURSIVE InsertByKey(_, _)
InsertByKey(sorted, r) ==
    IF sorted = <<>> THEN <<r>>
    ELSE IF sorted[Len(sorted)].latency_ms <= r.latency_ms
         THEN Append(sorted, r)
         ELSE Append(InsertByKey(SubSeq(sorted, 1, Len(sorted) - 1), r),
                     sorted[Len(sorted)])

RECURSIVE SortFrom(_, _, _)
SortFrom(s, k, acc) ==
    IF k > Len(s) THEN acc ELSE SortFrom(s, k + 1, InsertByKey(acc, s[k]))

NoSort(s) == s

\* a sort followed by dedup_by_key
RECURSIVE DedupByKey(_)
DedupByKey(s) ==
    IF Len(s) <= 1 THEN s
    ELSE LET front == DedupByKey(SubSeq(s, 1, Len(s) - 1))
         IN IF front[Len(front)].latency_ms = s[Len(s)].latency_ms
            THEN front ELSE Append(front, s[Len(s)])

SortAndDedup(s) == DedupByKey(SortFrom(s, 1, <<>>))

sort_by_key(s) == SortFrom(s, 1, <<>>)

(***************************************************************************)
(* futures::future::join_all: resolves once every future has, to the       *)
(* outputs in the order of the futures it was given.                       *)
(***************************************************************************)
JoinReadyOnFirst(t) == \E i \in DOMAIN t : t[i] = "done"

JoinReady(t) == \A i \in DOMAIN t : t[i] = "done"

JoinOutputByCompletion(r, t, fin) == [k \in 1..Len(fin) |-> r[fin[k]]]

JoinOutput(r, t, fin) == [i \in 1..Len(r) |-> r[i]]

(***************************************************************************)
(* benchmark_mirrors                                                       *)
(***************************************************************************)
\* lines 80-108: the client, the progress bar, one future per mirror, and
\* join_all's first poll, which polls every future: each sends its request.
BenchmarkStart ==
    /\ bpc = "idle"
    /\ bpc' = "joining"
    /\ task' = [i \in 1..Len(mirrors) |-> "inflight"]
    /\ UNCHANGED <<mirrors, outcome, res, finished, progress, output>>
    /\ UNCHANGED storeVars
    /\ UNCHANGED cliVars

\* lines 100-102 and 136-156: the request of future i resolves, the future
\* completes with check_latency's result and advances the progress bar.
ProbeResolve(i) ==
    /\ bpc = "joining"
    /\ task[i] = "inflight"
    /\ RequestResolves(outcome[i])
    /\ task' = [task EXCEPT ![i] = "done"]
    /\ res' = [res EXCEPT ![i] = check_latency(mirrors[i], outcome[i])]
    /\ finished' = Append(finished, i)
    /\ progress' = progress + 1
    /\ UNCHANGED <<mirrors, outcome, bpc, output>>
    /\ UNCHANGED storeVars
    /\ UNCHANGED cliVars

\* lines 108-116: join_all resolves, the results are sorted and returned.
BenchmarkReturn ==
    /\ bpc = "joining"
    /\ JoinReady(task)
    /\ output' = sort_by_key(JoinOutput(res, task, finished))
    /\ bpc' = "returned"
    /\ UNCHANGED <<mirrors, outcome, task, res, finished, progress>>
    /\ UNCHANGED storeVars
    /\ UNCHANGED cliVars

(***************************************************************************)
(* Text of a configuration file: line bodies separated by line breaks.     *)
(* A line body is a section header "[key]", an assignment "key = val"      *)
(* (white space around "=" is not kept), or a comment.                     *)
(***************************************************************************)
NL == [kind |-> "nl", key |-> "", val |-> ""]

Section(name) == [kind |-> "section", key |-> name, val |-> ""]

Assign(key, val) == [kind |-> "assign", key |-> key, val |-> val]

Comment(words) == [kind |-> "comment", key |-> words, val |-> ""]

\* Option<String>
None == [some |-> FALSE, v |-> ""]

Some(v) == [some |-> TRUE, v |-> v]

\* Result<T>
Ok(v) == [ok |-> TRUE, v |-> v, err |-> ""]

Err(msg) == [ok |-> FALSE, v |-> None, err |-> msg]

(***************************************************************************)
(* The file system under config_path(): the parent directory, the live     *)
(* file and its backups <file name>.bak.<timestamp>.                       *)
(***************************************************************************)
NoFile == [exists |-> FALSE, text |-> <<>>]

File(text) == [exists |-> TRUE, text |-> text]

FileSystem(d, l, s) == [dir |-> d, live |-> l, snaps |-> s]

\* fs::create_dir_all(parent)
create_dir_all(fs) == [fs EXCEPT !.dir = TRUE]

\* fs::write(path, content)
write(fs, content) == [fs EXCEPT !.live = File(content)]

\* format!("{}", timestamp): the decimal digits, most significant first
RECURSIVE Decimal(_)
Decimal(n) == IF n < 10 THEN <<n>> ELSE Append(Decimal(n \div 10), n % 10)

\* the order of two backup paths in backups.sort(): they differ in the digits
\* after ".bak." only, and strings compare byte by byte
RECURSIVE StrLess(_, _)
StrLess(a, b) ==
    IF b = <<>> THEN FALSE
    ELSE IF a = <<>> THEN TRUE
    ELSE IF Head(a) # Head(b) THEN Head(a) < Head(b)
    ELSE StrLess(Tail(a), Tail(b))

PathLess(t, u) == StrLess(Decimal(t), Decimal(u))

\* backups.sort(); backups.last()
LastSorted(names) == CHOOSE t \in names : \A u \in names \ {t} : PathLess(u, t)

\* utils::backup_file at time t (it returns Ok(()) on both branches)
backup_file(fs, t) ==
    IF fs.live.exists
    THEN [fs EXCEPT !.snaps = (t :> fs.live.text) @@ fs.snaps]
    ELSE fs

\* a restore that reports success when there is nothing to restore
restore_or_nothing(fs) ==
    IF fs.dir /\ DOMAIN fs.snaps # {}
    THEN [fs |-> [fs EXCEPT !.live = File(fs.snaps[LastSorted(DOMAIN fs.snaps)])],
          result |-> Ok(None), picked |-> LastSorted(DOMAIN fs.snaps)]
    ELSE [fs |-> fs, result |-> Ok(None), picked |-> -1]

\* a restore that removes the backup it has copied
restore_and_remove(fs) ==
    IF ~fs.dir
    THEN [fs |-> fs, result |-> Err("Directory not found"), picked |-> -1]
    ELSE IF DOMAIN fs.snaps = {}
    THEN [fs |-> fs, result |-> Err("No backup files found."), picked |-> -1]
    ELSE LET latest == LastSorted(DOMAIN fs.snaps)
         IN [fs |-> [fs EXCEPT !.live = File(fs.snaps[latest]),
                               !.snaps = [t \in DOMAIN fs.snaps \ {latest} |-> fs.snaps[t]]],
             result |-> Ok(None), picked |-> latest]

\* utils::restore_latest_backup
restore_latest_backup(fs) ==
    IF ~fs.dir
    THEN [fs |-> fs, result |-> Err("Directory not found"), picked |-> -1]
    ELSE IF DOMAIN fs.snaps = {}
    THEN [fs |-> fs, result |-> Err("No backup files found."), picked |-> -1]
    ELSE LET latest == LastSorted(DOMAIN fs.snaps)
         IN [fs |-> [fs EXCEPT !.live = File(fs.snaps[latest])],
             result |-> Ok(None), picked |-> latest]

(***************************************************************************)
(* pip and npm: line-anchored regular expressions over the text.           *)
(***************************************************************************)
\* the lines "<key> = ..." of the text
KeyLines(text, key) ==
    {i \in DOMAIN text : text[i].kind = "assign" /\ text[i].key = key}

\* the first line after line i that is not blank, 0 if there is none
NextLine(text, i) ==
    LET later == {j \in (i + 1)..Len(text) : text[j].kind # "nl"}
    IN IF later = {} THEN 0 ELSE CHOOSE j \in later : \A k \in later : j <= k

\* where the match of "(?m)^<key>\s*=\s*.*$" that starts at line i ends: \s
\* matches a line break too, so when nothing follows "=" on its line the
\* match runs over the blank lines after it and through the next line
MatchEnd(text, i) ==
    IF text[i].val # "" THEN i
    ELSE IF NextLine(text, i) = 0 THEN Len(text) ELSE NextLine(text, i)

\* the first match of "(?m)^<key>\s*=\s*.*$", 0 if there is none
FirstMatch(text, key) ==
    LET hits == KeyLines(text, key)
    IN IF hits = {} THEN 0 ELSE CHOOSE i \in hits : \A j \in hits : i <= j

\* a line as the characters of the file
Render(a) ==
    CASE a.kind = "assign" -> a.key \o " = " \o a.val
      [] a.kind = "section" -> "[" \o a.key \o "]"
      [] OTHER -> a.key

\* the first match of "(?m)^<key>\s*=\s*(.+)$", 0 if there is none: the
\* group needs a character, on the line of the key or on the next line
FirstCapture(text, key) ==
    LET hits == {i \in KeyLines(text, key) : text[i].val # "" \/ NextLine(text, i) # 0}
    IN IF hits = {} THEN 0 ELSE CHOOSE i \in hits : \A j \in hits : i <= j

\* re.captures(&content), caps[1].trim()
CapturedUrl(file, key) ==
    IF ~file.exists THEN Ok(None)
    ELSE LET i == FirstCapture(file.text, key)
         IN IF i = 0 THEN Ok(None)
            ELSE IF file.text[i].val # "" THEN Ok(Some(file.text[i].val))
            ELSE Ok(Some(Render(file.text[NextLine(file.text, i)])))

\* a replacement that leaves the old assignment and adds the new one after it
ReplaceKeepingOld(text, key, line) ==
    SubSeq(text, 1, FirstMatch(text, key)) \o <<NL, line>>
        \o SubSeq(text, FirstMatch(text, key) + 1, Len(text))

\* re.replace(&content, line): the first match only
ReplaceFirst(text, key, line) ==
    LET i == FirstMatch(text, key)
    IN SubSeq(text, 1, i - 1) \o <<line>> \o SubSeq(text, MatchEnd(text, i) + 1, Len(text))

\* content.replace("[global]", "[global]\n<line>"): every occurrence
RECURSIVE InjectAfterGlobal(_, _)
InjectAfterGlobal(text, line) ==
    IF text = <<>> THEN <<>>
    ELSE IF Head(text) = Section("global")
         THEN <<Head(text), NL, line>> \o InjectAfterGlobal(Tail(text), line)
         ELSE <<Head(text)>> \o InjectAfterGlobal(Tail(text), line)

\* PipManager::set_source, lines 104-121
PipNewContent(content, url) ==
    LET new_url_line == Assign("index-url", url)
    IN IF FirstMatch(content, "index-url") # 0
       THEN ReplaceFirst(content, "index-url", new_url_line)
       ELSE IF \E i \in DOMAIN content : content[i] = Section("global")
       THEN InjectAfterGlobal(content, new_url_line)
       ELSE content \o (IF content = <<>> THEN <<>> ELSE <<NL>>)
                    \o <<Section("global"), NL, new_url_line, NL>>

\* NpmManager::set_source, lines 90-103
NpmNewContent(content, url) ==
    LET new_line == Assign("registry", url)
    IN IF FirstMatch(content, "registry") # 0
       THEN ReplaceFirst(content, "registry", new_line)
       ELSE content
              \o (IF content = <<>> \/ content[Len(content)] = NL THEN <<>> ELSE <<NL>>)
              \o <<new_line, NL>>

(***************************************************************************)
(* cargo: the text is parsed into a toml::Value, changed, and serialized.  *)
(* A parsed document is the set of its tables and the set of its items     *)
(* [table, key, str, val]; str tells a string value from any other.        *)
(***************************************************************************)
AssignRaw(key, val) == [kind |-> "assign_raw", key |-> key, val |-> val]

Garbage(words) == [kind |-> "garbage", key |-> words, val |-> ""]

Item(table, key, str, val) == [table |-> table, key |-> key, str |-> str, val |-> val]

\* toml::Value::Table(toml::map::Map::new())
EmptyTable == [ok |-> TRUE, tables |-> {}, items |-> {}]

Malformed == [ok |-> FALSE, tables |-> {}, items |-> {}]

\* the name of the table (or of the value) at key under table
Dotted(table, key) == IF table = "" THEN key ELSE table \o "." \o key

\* the vocabulary of the documents: parent tables, their sub-tables and the
\* keys, each in the order a BTreeMap keeps them
ParentTables == <<"source">>

SubTables == <<"crates-io", "mirror", "ustc">>

TableOrder == <<"net", "source.crates-io", "source.mirror", "source.ustc">>

KeyOrder == <<"crates-io", "git-fetch-with-cli", "mirror", "registry", "replace-with", "source">>

Range(f) == {f[i] : i \in DOMAIN f}

\* the tables a header "[a.b]" defines on the way
ImpliedTables(tables) ==
    {p \in Range(ParentTables) : \E c \in Range(SubTables) : Dotted(p, c) \in tables}

RECURSIVE ParseFrom(_, _, _, _)
ParseFrom(text, i, cur, doc) ==
    IF i > Len(text) THEN doc
    ELSE LET a == text[i]
         IN CASE a.kind \in {"nl", "comment"} -> ParseFrom(text, i + 1, cur, doc)
              [] a.kind = "section" ->
                    IF a.key \in doc.tables THEN Malformed
                    ELSE ParseFrom(text, i + 1, a.key,
                                   [doc EXCEPT !.tables = @ \cup {a.key}])
              [] a.kind \in {"assign", "assign_raw"} ->
                    IF \E it \in doc.items : it.table = cur /\ it.key = a.key
                    THEN Malformed
                    ELSE ParseFrom(text, i + 1, cur,
                                   [doc EXCEPT !.items = @ \cup
                                       {Item(cur, a.key, a.kind = "assign", a.val)}])
              [] OTHER -> Malformed

\* toml::from_str(&content)
from_str(text) ==
    LET doc == ParseFrom(text, 1, "", EmptyTable)
        all == doc.tables \cup ImpliedTables(doc.tables)
    IN IF doc.ok /\ \A it \in doc.items : Dotted(it.table, it.key) \notin all
       THEN [doc EXCEPT !.tables = all]
       ELSE Malformed

\* toml::from_str(&content).unwrap_or(toml::Value::Table(toml::map::Map::new()))
from_str_or_empty(text) == IF from_str(text).ok THEN from_str(text) ELSE EmptyTable

\* config.get(table).and_then(|t| t.get(key)).and_then(|v| v.as_str())
GetStr(doc, table, key) ==
    LET hits == {it \in doc.items : it.table = table /\ it.key = key /\ it.str}
    IN IF hits = {} THEN None ELSE Some((CHOOSE it \in hits : TRUE).val)

\* the lines "key = value" of a table, keys in order
RECURSIVE ItemLines(_, _, _)
ItemLines(doc, table, k) ==
    IF k > Len(KeyOrder) THEN <<>>
    ELSE LET hits == {it \in doc.items : it.table = table /\ it.key = KeyOrder[k]}
             it == CHOOSE x \in hits : TRUE
         IN (IF hits = {} THEN <<>>
             ELSE <<IF it.str THEN Assign(it.key, it.val) ELSE AssignRaw(it.key, it.val), NL>>)
            \o ItemLines(doc, table, k + 1)

\* the tables that have lines of their own, each under its header, a blank
\* line between two
RECURSIVE TableLines(_, _, _)
TableLines(doc, k, first) ==
    IF k > Len(TableOrder) THEN <<>>
    ELSE IF TableOrder[k] \in doc.tables
         THEN (IF first THEN <<>> ELSE <<NL>>)
                 \o <<Section(TableOrder[k]), NL>>
                 \o ItemLines(doc, TableOrder[k], 1)
                 \o TableLines(doc, k + 1, FALSE)
         ELSE TableLines(doc, k + 1, first)

\* toml::to_string_pretty(&config): the values of the root first, then the tables
to_string_pretty(doc) ==
    ItemLines(doc, "", 1) \o TableLines(doc, 1, ItemLines(doc, "", 1) = <<>>)

\* an insert that keeps the value a key already has
InsertIfAbsent(doc, table, key, val) ==
    IF \E it \in doc.items : it.table = table /\ it.key = key
    THEN doc
    ELSE [doc EXCEPT !.items = @ \cup {Item(table, key, TRUE, val)}]

\* table.insert(key, toml::Value::String(val))
Insert(doc, table, key, val) ==
    [doc EXCEPT !.items =
        {it \in @ : ~(it.table = table /\ it.key = key)} \cup {Item(table, key, TRUE, val)}]

\* entry(key).or_insert(table) is a table
IsTableOrAbsent(doc, table, key) ==
    \A it \in doc.items : ~(it.table = table /\ it.key = key)

\* CargoManager::set_source, lines 102-150, on the text read
CargoNewContent(content, url) ==
    LET config == from_str_or_empty(content)
        tabled == [config EXCEPT
                      !.tables = @ \cup {"source", "source.crates-io", "source.mirror"}]
        replaced == Insert(tabled, "source.crates-io", "replace-with", "mirror")
        set == Insert(replaced, "source.mirror", "registry", url)
    IN IF ~IsTableOrAbsent(config, "", "source")
       THEN Err("Invalid [source] section")
       ELSE IF ~IsTableOrAbsent(config, "source", "crates-io")
       THEN Err("Invalid [source.crates-io] section")
       ELSE IF ~IsTableOrAbsent(config, "source", "mirror")
       THEN Err("Invalid [source.mirror] section")
       ELSE [ok |-> TRUE, v |-> to_string_pretty(set), err |-> ""]

\* CargoManager::current_url
CargoCurrentUrl(file) ==
    IF ~file.exists THEN Ok(None)
    ELSE LET config == from_str_or_empty(file.text)
             replace_with == GetStr(config, "source.crates-io", "replace-with")
         IN IF replace_with.some
            THEN Ok(GetStr(config, Dotted("source", replace_with.v), "registry"))
            ELSE Ok(None)

\* CargoManager::set_source at time t
CargoSetSource(fs, time, mirror) ==
    LET made == create_dir_all(fs)
        content == IF made.live.exists THEN made.live.text ELSE <<>>
        saved == IF content # <<>> THEN backup_file(made, time) ELSE made
        new_content == CargoNewContent(content, mirror.url)
    IN IF new_content.ok
       THEN [fs |-> write(saved, new_content.v), result |-> Ok(None)]
       ELSE [fs |-> saved, result |-> Err(new_content.err)]

(***************************************************************************)
(* apt: sources.list. A line is "deb <url> <suite>", "deb-src <url>        *)
(* <suite>", such a line commented out ("# deb <url> <suite>"), or another *)
(* comment; key holds the suite and val the URL.                           *)
(***************************************************************************)
Deb(url, suite) == [kind |-> "deb", key |-> suite, val |-> url]

DebSrc(url, suite) == [kind |-> "deb-src", key |-> suite, val |-> url]

DebOff(url, suite) == [kind |-> "deb-off", key |-> suite, val |-> url]

\* the URLs of the model without their last "/", and what a URL can have
\* after another URL that it starts with
UrlStems ==
    {"https://a.test", "https://b.test",
     "http://archive.ubuntu.com/ubuntu", "http://security.ubuntu.com/ubuntu",
     "http://deb.debian.org/debian"}

UrlTails == {"", "/", "-security"}

\* mirror.url.ends_with('/')
ends_with_slash(url) == \E stem \in UrlStems : url = stem \o "/"

\* lines 115-119
TargetUrl(url) == IF ends_with_slash(url) THEN url ELSE url \o "/"

\* u.replace(from, to) of a URL u: u holds from where it starts with it
ReplaceInUrl(u, from, to) ==
    IF \E tail \in UrlTails : u = from \o tail
    THEN to \o (CHOOSE tail \in UrlTails : u = from \o tail)
    ELSE u

\* content.replace(from, to): every occurrence, on every line that holds a URL
ReplaceAll(content, from, to) ==
    [i \in DOMAIN content |->
        IF content[i].kind \in {"deb", "deb-src", "deb-off"}
        THEN [content[i] EXCEPT !.val = ReplaceInUrl(@, from, to)]
        ELSE content[i]]

\* the first line the pattern "(?m)^deb\s+(?:\[.*?\]\s+)?(?P<url>https?://\S+)\s+" matches
FirstDeb(text) ==
    LET hits == {i \in DOMAIN text : text[i].kind = "deb"}
    IN IF hits = {} THEN 0 ELSE CHOOSE i \in hits : \A j \in hits : i <= j

\* AptManager::current_url
AptCurrentUrl(file) ==
    IF ~file.exists THEN Ok(None)
    ELSE IF FirstDeb(file.text) = 0 THEN Ok(None)
    ELSE Ok(Some(file.text[FirstDeb(file.text)].val))

\* lines 133-137
DefaultDomains(family) ==
    IF family = "ubuntu"
    THEN <<"archive.ubuntu.com/ubuntu/", "security.ubuntu.com/ubuntu/">>
    ELSE <<"deb.debian.org/debian/", "security.debian.org/debian/">>

\* lines 139-145: the loop over the default domains
RECURSIVE ReplaceDefaults(_, _, _, _)
ReplaceDefaults(modified, domains, k, target_url) ==
    IF k > Len(domains) THEN modified
    ELSE ReplaceDefaults(
            ReplaceAll(ReplaceAll(modified, "http://" \o domains[k], target_url),
                       "https://" \o domains[k], target_url),
            domains, k + 1, target_url)

\* lines 115-146
AptNewContent(content, current, family, url) ==
    IF current.some
    THEN ReplaceAll(content, current.v, TargetUrl(url))
    ELSE ReplaceDefaults(content, DefaultDomains(family), 1, TargetUrl(url))

\* an apt adapter that writes the sources file when there is none
AptSetSourceCreating(fs, time, mirror, family) ==
    LET content == IF fs.live.exists THEN fs.live.text ELSE <<>>
        saved == backup_file(fs, time)
        current == AptCurrentUrl(saved.live).v
    IN [fs |-> write(create_dir_all(saved), AptNewContent(content, current, family, mirror.url)),
        result |-> Ok(None)]

\* AptManager::set_source at time t
AptSetSource(fs, time, mirror, family) ==
    IF ~fs.live.exists
    THEN [fs |-> fs, result |-> Err("Config file not found")]
    ELSE LET content == fs.live.text
             saved == backup_file(fs, time)
             current == AptCurrentUrl(saved.live).v
         IN [fs |-> write(saved, AptNewContent(content, current, family, mirror.url)),
             result |-> Ok(None)]

(***************************************************************************)
(* docker: daemon.json. The text is "{", members and "}" (line breaks and  *)
(* commas are layout), or another JSON value, or no JSON at all. A member  *)
(* is "key": "string", "key": <another scalar or an object>, or            *)
(* "key": [<strings>], of which val holds the first.                       *)
(***************************************************************************)
Open == [kind |-> "open", key |-> "{", val |-> ""]

Close == [kind |-> "close", key |-> "}", val |-> ""]

Member(key, val) == [kind |-> "member", key |-> key, val |-> val]

MemberRaw(key, val) == [kind |-> "member_raw", key |-> key, val |-> val]

\* "key": ["first"], "key": ["first", ...] and "key": []
ArrayOne(key, first) == [kind |-> "array_one", key |-> key, val |-> first]

ArrayMany(key, first) == [kind |-> "array_many", key |-> key, val |-> first]

ArrayEmpty(key) == [kind |-> "array_empty", key |-> key, val |-> ""]

\* the document "null", and a document that is an array, a number or a string
JsonNull == [kind |-> "json_null", key |-> "null", val |-> ""]

JsonOther(words) == [kind |-> "json_other", key |-> words, val |-> ""]

MemberKinds == {"member", "member_raw", "array_one", "array_many", "array_empty"}

\* serde_json::Value: an object of members, null, or another value
JsonObject(members) == [ok |-> TRUE, kind |-> "object", members |-> members]

JsonValue(kind) == [ok |-> TRUE, kind |-> kind, members |-> {}]

JsonError == [ok |-> FALSE, kind |-> "error", members |-> {}]

\* the text without its line breaks
RECURSIVE Tokens(_)
Tokens(text) ==
    IF text = <<>> THEN <<>>
    ELSE IF Head(text).kind = "nl" THEN Tokens(Tail(text))
    ELSE <<Head(text)>> \o Tokens(Tail(text))

\* of the members with one key the last one stays
LastOfKey(tok) ==
    {tok[i] : i \in {i \in 2..(Len(tok) - 1) :
                        \A j \in (i + 1)..(Len(tok) - 1) : tok[j].key # tok[i].key}}

\* serde_json::from_str(&content)
json_from_str(text) ==
    LET tok == Tokens(text)
    IN IF tok = <<JsonNull>> THEN JsonValue("null")
       ELSE IF Len(tok) = 1 /\ tok[1].kind = "json_other" THEN JsonValue("other")
       ELSE IF /\ Len(tok) >= 2
               /\ tok[1] = Open
               /\ tok[Len(tok)] = Close
               /\ \A i \in 2..(Len(tok) - 1) : tok[i].kind \in MemberKinds
       THEN JsonObject(LastOfKey(tok))
       ELSE JsonError

\* serde_json::from_str(&content).unwrap_or(serde_json::json!({}))
json_from_str_or_empty(text) ==
    IF json_from_str(text).ok THEN json_from_str(text) ELSE JsonObject({})

\* the keys of the documents in the order a Map keeps them
JsonKeyOrder == <<"debug", "log-level", "registry-mirrors">>

RECURSIVE MemberLines(_, _)
MemberLines(members, k) ==
    IF k > Len(JsonKeyOrder) THEN <<>>
    ELSE LET hits == {m \in members : m.key = JsonKeyOrder[k]}
         IN (IF hits = {} THEN <<>> ELSE <<CHOOSE m \in hits : TRUE, NL>>)
            \o MemberLines(members, k + 1)

\* serde_json::to_string_pretty(&config) of an object
json_to_string_pretty(doc) ==
    IF doc.members = {} THEN <<Open, Close>>
    ELSE <<Open, NL>> \o MemberLines(doc.members, 1) \o <<Close>>

\* an assignment that builds the object anew with the one key
IndexAssignFresh(doc, key, url) == JsonObject({ArrayOne(key, url)})

\* config["registry-mirrors"] = json!([url]): null becomes an object first
IndexAssign(doc, key, url) ==
    JsonObject({m \in doc.members : m.key # key} \cup {ArrayOne(key, url)})

\* DockerManager::current_url
DockerCurrentUrl(file) ==
    IF ~file.exists THEN Ok(None)
    ELSE LET v == json_from_str(file.text)
             hits == {m \in v.members : m.key = "registry-mirrors"
                                        /\ m.kind \in {"array_one", "array_many"}}
         IN IF ~v.ok THEN Err("JSON parsing error")
            ELSE IF hits = {} THEN Ok(None)
            ELSE Ok(Some((CHOOSE m \in hits : TRUE).val))

\* DockerManager::set_source at time t. Indexing a value that is neither an
\* object nor null by a string panics: the process ends after the backup.
DockerSetSource(fs, time, mirror) ==
    LET found == fs.live.exists
        made == IF found THEN fs ELSE create_dir_all(fs)
        config == IF found THEN json_from_str_or_empty(fs.live.text) ELSE JsonObject({})
        saved == backup_file(made, time)
    IN IF config.kind = "other"
       THEN [fs |-> saved, result |-> Err("panic")]
       ELSE [fs |-> write(saved, json_to_string_pretty(
                                     IndexAssign(config, "registry-mirrors", mirror.url))),
             result |-> Ok(None)]

(***************************************************************************)
(* go and brew: no configuration file. go keeps GOPROXY in the env file of *)
(* the go command; brew reads HOMEBREW_API_DOMAIN from the environment of   *)
(* the process. A GOPROXY value is the list of its comma-separated parts.  *)
(***************************************************************************)
\* the go command: "absent" (it cannot be spawned), "readonly" (go env -w and
\* -u exit with a failure), "works"
GoModes == {"absent", "readonly", "works"}

NoEnvironment == [go |-> "absent", GOPROXY |-> <<>>, HOMEBREW_API_DOMAIN |-> ""]

\* what an operation of an adapter leaves: the files, the environment, its
\* Result and the lines it printed
Handled(fs, e, r, printed) == [fs |-> fs, env |-> e, result |-> r, printed |-> printed]

\* the output of "go env GOPROXY": the setting, or the default of go
GoEnvGet(e) ==
    IF e.GOPROXY = <<>> THEN <<"https://proxy.golang.org", "direct">> ELSE e.GOPROXY

\* GoManager::current_url
GoCurrentUrl(e) ==
    IF e.go = "absent" THEN Ok(None)
    ELSE IF GoEnvGet(e) = <<>> THEN Ok(None)
    ELSE Ok(Some(Head(GoEnvGet(e))))

\* GoManager::set_source
GoSetSource(fs, e, mirror) ==
    LET new_val == <<mirror.url, "direct">>
    IN IF e.go = "absent"
       THEN Handled(fs, e, Err("IO operation failed"), <<>>)
       ELSE IF e.go = "readonly"
       THEN Handled(fs, e, Err("Failed to set GOPROXY via 'go env -w'"), <<>>)
       ELSE Handled(fs, [e EXCEPT !.GOPROXY = new_val], Ok(None), <<>>)

\* a restore that copies the latest backup of the path over the file
FileRestore(fs, e) ==
    Handled(restore_latest_backup(fs).fs, e, restore_latest_backup(fs).result, <<>>)

\* GoManager::restore
GoRestore(fs, e) ==
    LET printed == <<"Restoring GOPROXY to default (unsetting)...">>
    IN IF e.go = "absent"
       THEN Handled(fs, e, Err("IO operation failed"), printed)
       ELSE IF e.go = "readonly"
       THEN Handled(fs, e, Err("Failed to unset GOPROXY via 'go env -u'"), printed)
       ELSE Handled(fs, [e EXCEPT !.GOPROXY = <<>>], Ok(None), printed)

\* BrewManager::current_url
BrewCurrentUrl(e) ==
    IF e.HOMEBREW_API_DOMAIN # "" THEN Ok(Some(e.HOMEBREW_API_DOMAIN)) ELSE Ok(None)

\* BrewManager::set_source: it prints the commands to run (the URLs of the
\* model name neither tuna nor ustc, so no bottle domain is printed)
BrewSetSource(fs, e, mirror) ==
    Handled(fs, e, Ok(None),
            <<"To apply this mirror, please run the following commands in your terminal:",
              "    export HOMEBREW_API_DOMAIN \"" \o mirror.url \o "\"",
              "To make it permanent, add the above lines to your ~/.zshrc or ~/.bash_profile.">>)

\* BrewManager::restore
BrewRestore(fs, e) ==
    Handled(fs, e, Ok(None),
            <<"To restore Brew configuration, please unset the environment variables:",
              "    unset HOMEBREW_API_DOMAIN",
              "    unset HOMEBREW_BOTTLE_DOMAIN">>)

NewContent(t, content, url) ==
    CASE t = "pip" -> PipNewContent(content, url)
      [] t = "npm" -> NpmNewContent(content, url)

\* SourceManager::current_url
current_url(t, file) ==
    CASE t = "pip" -> CapturedUrl(file, "index-url")
      [] t = "npm" -> CapturedUrl(file, "registry")
      [] t = "cargo" -> CargoCurrentUrl(file)
      [] t = "docker" -> DockerCurrentUrl(file)
      [] t = "apt" -> AptCurrentUrl(file)

\* a set_source that writes the new content and takes the backup after it
TextSetSourceWriteFirst(t, fs, time, mirror) ==
    LET made == create_dir_all(fs)
        content == IF made.live.exists THEN made.live.text ELSE <<>>
        written == write(made, NewContent(t, content, mirror.url))
    IN [fs |-> IF content # <<>> THEN backup_file(written, time) ELSE written,
        result |-> Ok(None)]

\* set_source of the adapters that patch the text (pip, npm) at time t
TextSetSource(t, fs, time, mirror) ==
    LET made == create_dir_all(fs)
        content == IF made.live.exists THEN made.live.text ELSE <<>>
        saved == IF content # <<>> THEN backup_file(made, time) ELSE made
    IN [fs |-> write(saved, NewContent(t, content, mirror.url)), result |-> Ok(None)]

\* SourceManager::set_source
set_source(t, fs, time, mirror, d) ==
    CASE t \in {"pip", "npm"} -> TextSetSource(t, fs, time, mirror)
      [] t = "cargo" -> CargoSetSource(fs, time, mirror)
      [] t = "docker" -> DockerSetSource(fs, time, mirror)
      [] t = "apt" -> AptSetSource(fs, time, mirror, d)

(***************************************************************************)
(* The files a run starts from and the edits a user makes.                 *)
(***************************************************************************)
Tools == {"pip", "npm", "cargo", "docker", "apt"}

\* the distro AptManager::new can detect
Distros == {"ubuntu", "debian"}

StoreMirrors == {Candidate(1), Candidate(2)}

\* the file a run finds
InitialText(t) ==
    CASE t = "pip" -> <<Section("global"), NL, Assign("timeout", "60"), NL>>
      [] t = "npm" -> <<Assign("registry", "https://registry.npmjs.org/"), NL>>
      [] t = "cargo" -> <<Comment("# cargo"), NL, Section("net"), NL,
                          AssignRaw("git-fetch-with-cli", "true"), NL>>
      [] t = "docker" -> <<Open, MemberRaw("debug", "true"), Close>>
      [] t = "apt" -> <<NL, Comment("# Main repo"), NL,
                        Deb("http://archive.ubuntu.com/ubuntu/", "jammy main restricted"), NL,
                        Deb("http://archive.ubuntu.com/ubuntu/", "jammy-updates main restricted"), NL,
                        Comment("# Security"), NL,
                        Deb("http://security.ubuntu.com/ubuntu/", "jammy-security main restricted"), NL>>

\* the file after the user's edit
EditedText(t) ==
    CASE t = "pip" -> <<Comment("# pip"), NL, Section("install"), NL,
                        Assign("index-url", "https://pypi.org/simple"), NL>>
      [] t = "npm" -> <<Assign("save-exact", "true")>>
      [] t = "cargo" -> <<Section("source.crates-io"), NL,
                          Assign("replace-with", "ustc"), NL, NL,
                          Section("source.ustc"), NL,
                          Assign("registry", "sparse+https://ustc.test/index"), NL>>
      [] t = "docker" -> <<Open, NL, ArrayMany("registry-mirrors", "https://old.test"), NL,
                           Member("log-level", "warn"), NL, Close, NL>>
      [] t = "apt" -> <<Deb("http://deb.debian.org/debian", "bookworm main"), NL,
                        Deb("http://deb.debian.org/debian-security", "bookworm-security main"), NL>>

\* other files a run can find: an empty one, and per adapter one whose key
\* has no value (pip, npm), whose content does not parse or is not the
\* structure the adapter expects (cargo, docker), or with no active source
\* line (apt)
OtherTexts(t) ==
    CASE t = "pip" -> {<<>>,
                       <<Section("global"), NL, Assign("index-url", ""), NL,
                         Assign("timeout", "60"), NL>>}
      [] t = "npm" -> {<<>>,
                       <<Assign("registry", ""), NL, NL, Assign("save-exact", "true"), NL>>}
      [] t = "cargo" -> {<<>>,
                         <<Garbage("[source"), NL>>,
                         <<Assign("source", "local"), NL>>}
      [] t = "docker" -> {<<>>,
                          <<Open, NL, MemberRaw("debug", "true"), NL>>,
                          <<JsonOther("[]"), NL>>,
                          <<JsonNull>>}
      [] t = "apt" -> {<<>>,
                       <<DebOff("http://archive.ubuntu.com/ubuntu/", "jammy main"), NL,
                         DebSrc("https://security.ubuntu.com/ubuntu/", "jammy-security main"), NL>>}

UserTexts(t) == {InitialText(t)} \cup OtherTexts(t)

(***************************************************************************)
(* The operations of a run on one adapter.                                 *)
(***************************************************************************)
Now == FileSystem(dir, live, snaps)

Entry(op, url, r, picked) ==
    [op |-> op, url |-> url, result |-> r, picked |-> picked,
     pre |-> live, had |-> DOMAIN snaps]

\* the three latest operations
Logged(e) == IF Len(hist) < 3 THEN Append(hist, e) ELSE Append(Tail(hist), e)

\* the file system and the log after an operation
Stored(fs, e) ==
    /\ dir' = fs.dir
    /\ live' = fs.live
    /\ snaps' = fs.snaps
    /\ hist' = Logged(e)
    /\ ops' = ops + 1
    /\ UNCHANGED <<tool, distro, now, env>>

Becomes(fs, e) ==
    /\ Stored(fs, e)
    /\ UNCHANGED benchVars
    /\ UNCHANGED cliVars

\* manager.set_source(&mirror)
SetSource(m) ==
    /\ ops < MaxOps
    /\ LET r == set_source(tool, Now, now, m, distro)
       IN Becomes(r.fs, Entry("set_source", m.url, r.result, -1))

\* manager.current_url()
CurrentUrl ==
    /\ ops < MaxOps
    /\ Becomes(Now, Entry("current_url", "", current_url(tool, live), -1))

\* manager.restore()
Restore ==
    /\ ops < MaxOps
    /\ LET r == restore_latest_backup(Now)
       IN Becomes(r.fs, Entry("restore", "", r.result, r.picked))

\* utils::backup_file(&path)
BackupFile ==
    /\ ops < MaxOps
    /\ LET fs == backup_file(Now, now)
       IN Becomes(fs, Entry("backup_file", "", Ok(None), -1))

\* the user (or a test's fs::write) puts other content into the file
EditFile ==
    /\ ops < MaxOps
    /\ dir
    /\ LET fs == write(Now, EditedText(tool))
       IN Becomes(fs, Entry("edit", "", Ok(None), -1))

\* a second passes
Tick ==
    /\ now < FirstSecond + MaxTicks
    /\ now' = now + 1
    /\ UNCHANGED <<tool, distro, dir, live, snaps, hist, ops, env>>
    /\ UNCHANGED benchVars
    /\ UNCHANGED cliVars

\* the state after an operation of go or brew
Handles(r, e) ==
    /\ dir' = r.fs.dir
    /\ live' = r.fs.live
    /\ snaps' = r.fs.snaps
    /\ env' = r.env
    /\ shown' = r.printed
    /\ hist' = Logged(e)
    /\ ops' = ops + 1
    /\ UNCHANGED <<tool, distro, now>>
    /\ UNCHANGED <<cmd, cpc, exit, before>>
    /\ UNCHANGED benchVars

\* manager.set_source(&mirror) of go and brew
EnvSetSource(m) ==
    /\ ops < MaxOps
    /\ LET r == IF tool = "go" THEN GoSetSource(Now, env, m) ELSE BrewSetSource(Now, env, m)
       IN Handles(r, Entry("set_source", m.url, r.result, -1))

\* manager.current_url() of go and brew
EnvCurrentUrl ==
    /\ ops < MaxOps
    /\ LET r == IF tool = "go" THEN GoCurrentUrl(env) ELSE BrewCurrentUrl(env)
       IN Handles(Handled(Now, env, r, <<>>), Entry("current_url", "", r, -1))

\* manager.restore() of go and brew
EnvRestore ==
    /\ ops < MaxOps
    /\ LET r == IF tool = "go" THEN GoRestore(Now, env) ELSE BrewRestore(Now, env)
       IN Handles(r, Entry("restore", "", r.result, -1))

(***************************************************************************)
(* main.rs: the commands. A run is one command line.                       *)
(***************************************************************************)
SUPPORTED_TOOLS == <<"pip", "npm", "docker", "go", "cargo", "brew", "apt">>

\* SUPPORTED_TOOLS.join(", ")
RECURSIVE Join(_, _)
Join(s, sep) ==
    IF s = <<>> THEN ""
    ELSE IF Len(s) = 1 THEN s[1]
    ELSE s[1] \o sep \o Join(Tail(s), sep)

\* str::to_lowercase, of the names of the model
to_lowercase(s) ==
    CASE s = "PIP" -> "pip"
      [] s = "Official" -> "official"
      [] s = "Mirror1" -> "mirror1"
      [] s = "Mirror2" -> "mirror2"
      [] OTHER -> s

eq_ignore_ascii_case(a, b) == to_lowercase(a) = to_lowercase(b)

\* sources::get_manager: the adapter of the name, or MirrorError::UnknownTool
get_manager(name) ==
    IF to_lowercase(name) \in Range(SUPPORTED_TOOLS)
    THEN Ok(Some(to_lowercase(name)))
    ELSE Err("Unknown tool: Unsupported tool: '" \o name \o "'. Available: "
                 \o Join(SUPPORTED_TOOLS, ", "))

\* manager.list_candidates(): the catalog's entries of the tool
list_candidates(t) == <<Candidate(1), Candidate(2)>>

\* url.trim_end_matches('/')
trim_end_slash(url) ==
    IF ends_with_slash(url) THEN CHOOSE stem \in UrlStems : url = stem \o "/" ELSE url

SameUrl(a, b) == a = b \/ trim_end_slash(a) = trim_end_slash(b)

\* iter().find(...): the first of the positions that fit, 0 if none does
FindFirst(hits) ==
    IF hits = {} THEN 0 ELSE CHOOSE i \in hits : \A j \in hits : i <= j

\* results that keep the unreachable mirrors
AllResults(results) == results

\* lines 246-249: results.into_iter().filter(|r| r.latency_ms < u64::MAX)
ValidResults(results) ==
    LET Reached(r) == r.latency_ms < U64_MAX
    IN SelectSeq(results, Reached)

\* the entry at the end of the sorted results
Worst(valid_results) == valid_results[Len(valid_results)]

\* line 255: let best = &valid_results[0]
Best(valid_results) == valid_results[1]

Row(a, b, c) == [a |-> a, b |-> b, c |-> c]

NoCommand == [command |-> "", name |-> "", source |-> None, fastest |-> FALSE]

NoExit == Err("")

\* the rest of the state as a handler that ends at once leaves it
Ends(r, rows) ==
    /\ exit' = r
    /\ shown' = rows
    /\ cpc' = "done"
    /\ UNCHANGED <<cmd, before>>

\* utils::benchmark_mirrors(candidates) up to its await of join_all; the
\* network answers each request in one of the ways of Outcomes
Benchmarks(candidates) ==
    /\ mirrors' = candidates
    /\ outcome' \in [1..Len(candidates) -> Outcomes]
    /\ task' = [i \in 1..Len(candidates) |-> "inflight"]
    /\ res' = [i \in 1..Len(candidates) |-> NoResult]
    /\ bpc' = "joining"
    /\ UNCHANGED <<finished, progress, output>>
    /\ cpc' = "benchmark"
    /\ UNCHANGED <<cmd, exit, shown, before>>

\* what current_url returned, an error taken as None
\* (unwrap_or_default in handle_status, .ok().flatten() in handle_test)
CurrentOrNone == IF current_url(tool, live).ok THEN current_url(tool, live).v ELSE None

\* handle_status(Some(name))
HandleStatus ==
    /\ cpc = "idle"
    /\ cmd.command = "status"
    /\ LET manager == get_manager(cmd.name)
           candidates == list_candidates(tool)
           k == FindFirst({i \in DOMAIN candidates :
                             trim_end_slash(candidates[i].url)
                                 = trim_end_slash(CurrentOrNone.v)})
           known_name == IF k = 0 THEN "Custom" ELSE candidates[k].name
           row == IF CurrentOrNone.some
                  THEN Row(tool, CurrentOrNone.v, "[" \o known_name \o "]")
                  ELSE Row(tool, "Default", "[Official/Default]")
       IN Ends(Ok(None), IF manager.ok THEN <<row>> ELSE <<>>)
    /\ UNCHANGED benchVars
    /\ UNCHANGED storeVars

\* handle_test, lines 137-144: the configured URL, else the Official one
TestCurrentUrl(candidates) ==
    LET o == FindFirst({i \in DOMAIN candidates :
                           eq_ignore_ascii_case(candidates[i].name, "Official")})
    IN IF CurrentOrNone.some THEN CurrentOrNone
       ELSE IF o # 0 THEN Some(candidates[o].url) ELSE None

\* handle_test up to its await of benchmark_mirrors
HandleTest ==
    /\ cpc = "idle"
    /\ cmd.command = "test"
    /\ LET manager == get_manager(cmd.name)
           candidates == list_candidates(tool)
           current_url_opt == TestCurrentUrl(candidates)
           is_known == \E i \in DOMAIN candidates :
                          SameUrl(candidates[i].url, current_url_opt.v)
       IN IF ~manager.ok
          THEN Ends(manager, <<>>) /\ UNCHANGED benchVars
          ELSE IF current_url_opt.some /\ ~is_known
          THEN Benchmarks(Append(candidates, Mirror("Current", current_url_opt.v)))
          ELSE Benchmarks(candidates)
    /\ UNCHANGED storeVars

\* handle_test, lines 168-182: the table
TestRows(results) ==
    [i \in 1..Len(results) |->
        Row(IF results[i].latency_ms = U64_MAX THEN "Timeout"
            ELSE ToString(results[i].latency_ms) \o "ms",
            results[i].mirror.name, results[i].mirror.url)]

\* handle_test, lines 185-223: the recommendation
Recommendation(results, current_url_opt) ==
    LET best == results[1]
        c == IF current_url_opt.some
             THEN FindFirst({i \in DOMAIN results :
                                SameUrl(results[i].mirror.url, current_url_opt.v)})
             ELSE 0
        cur == results[c]
        speedup_msg ==
            IF c = 0 THEN <<>>
            ELSE IF cur.latency_ms = U64_MAX
            THEN <<Row("Recommendation", best.mirror.name, "faster than Timeout")>>
            ELSE IF cur.latency_ms > best.latency_ms
            THEN <<Row("Recommendation", best.mirror.name, "faster")>>
            ELSE IF cur.latency_ms = best.latency_ms
            THEN <<Row("Recommendation", cur.mirror.name, "already the fastest")>>
            ELSE <<>>
    IN IF results = <<>> THEN <<>>
       ELSE IF best.latency_ms = U64_MAX THEN <<>>
       ELSE (IF speedup_msg # <<>> THEN speedup_msg
             ELSE <<Row("Recommendation", best.mirror.name, "the fastest")>>)
            \o <<Row("Run", cmd.name, best.mirror.name)>>

\* handle_test from the return of benchmark_mirrors
HandleTestPrint ==
    /\ cpc = "benchmark"
    /\ cmd.command = "test"
    /\ bpc = "joining"
    /\ JoinReady(task)
    /\ LET results == sort_by_key(JoinOutput(res, task, finished))
       IN /\ output' = results
          /\ Ends(Ok(None),
                  TestRows(results) \o Recommendation(results, TestCurrentUrl(list_candidates(tool))))
    /\ bpc' = "returned"
    /\ UNCHANGED <<mirrors, outcome, task, res, finished, progress>>
    /\ UNCHANGED storeVars

\* handle_use, lines 279-283
Applies(m) ==
    LET r == set_source(tool, Now, now, m, distro)
    IN /\ Stored(r.fs, Entry("set_source", m.url, r.result, -1))
       /\ Ends(r.result, IF r.result.ok THEN <<Row("Success", cmd.name, m.name)>> ELSE <<>>)

\* handle_use: all of it with a source name, up to its await of
\* benchmark_mirrors with --fastest
HandleUse ==
    /\ cpc = "idle"
    /\ cmd.command = "use"
    /\ LET manager == get_manager(cmd.name)
           candidates == list_candidates(tool)
           k == FindFirst({i \in DOMAIN candidates :
                             eq_ignore_ascii_case(candidates[i].name, cmd.source.v)})
       IN IF ~manager.ok
          THEN Ends(manager, <<>>) /\ UNCHANGED benchVars /\ UNCHANGED storeVars
          ELSE IF cmd.fastest
          THEN Benchmarks(candidates) /\ UNCHANGED storeVars
          ELSE IF k = 0
          THEN /\ Ends(Err("Mirror '" \o cmd.source.v
                              \o "' not found. Use 'test' to see available list."), <<>>)
               /\ UNCHANGED benchVars
               /\ UNCHANGED storeVars
          ELSE Applies(candidates[k]) /\ UNCHANGED benchVars

\* handle_use --fastest from the return of benchmark_mirrors
HandleUseFastest ==
    /\ cpc = "benchmark"
    /\ cmd.command = "use"
    /\ bpc = "joining"
    /\ JoinReady(task)
    /\ LET results == sort_by_key(JoinOutput(res, task, finished))
           valid_results == ValidResults(results)
       IN /\ output' = results
          /\ IF valid_results = <<>>
             THEN /\ Ends(Err("All mirrors timed out. Please check your network connection."),
                          <<>>)
                  /\ UNCHANGED storeVars
             ELSE Applies(Best(valid_results).mirror)
    /\ bpc' = "returned"
    /\ UNCHANGED <<mirrors, outcome, task, res, finished, progress>>

\* handle_restore
HandleRestore ==
    /\ cpc = "idle"
    /\ cmd.command = "restore"
    /\ LET manager == get_manager(cmd.name)
           r == restore_latest_backup(Now)
       IN IF ~manager.ok
          THEN Ends(manager, <<>>) /\ UNCHANGED storeVars
          ELSE /\ Stored(r.fs, Entry("restore", "", r.result, r.picked))
               /\ Ends(r.result,
                       IF r.result.ok THEN <<Row("Success", cmd.name, "restored")>> ELSE <<>>)
    /\ UNCHANGED benchVars

(***************************************************************************)
(* Specifications.                                                         *)
(***************************************************************************)
BenchIdle ==
    /\ mirrors = <<>>
    /\ outcome = <<>>
    /\ task = <<>>
    /\ res = <<>>
    /\ bpc = "idle"
    /\ finished = <<>>
    /\ progress = 0
    /\ output = <<>>

CliIdle ==
    /\ cmd = NoCommand
    /\ cpc = "idle"
    /\ exit = NoExit
    /\ shown = <<>>
    /\ before = Now

StoreIdle ==
    /\ tool = "pip"
    /\ distro = "ubuntu"
    /\ dir = FALSE
    /\ live = NoFile
    /\ snaps = <<>>
    /\ now = FirstSecond
    /\ hist = <<>>
    /\ ops = 0
    /\ env = NoEnvironment

\* An adapter over a fresh home (no directory, no file) or over a file the
\* user already has, with no backup yet or with one an earlier run left.
Init ==
    /\ BenchIdle
    /\ tool \in Tools
    /\ distro \in (IF tool = "apt" THEN Distros ELSE {"ubuntu"})
    /\ \/ dir = FALSE /\ live = NoFile /\ snaps = <<>>
       \/ dir = TRUE /\ live = NoFile /\ snaps = <<>>
       \/ dir = TRUE /\ snaps = <<>> /\ \E text \in UserTexts(tool) : live = File(text)
       \/ /\ dir = TRUE
          /\ live = File(InitialText(tool))
          /\ snaps = (FirstSecond - 1) :> EditedText(tool)
    /\ now = FirstSecond
    /\ hist = <<>>
    /\ ops = 0
    /\ env = NoEnvironment
    /\ CliIdle

Next ==
    \/ \E m \in StoreMirrors : SetSource(m)
    \/ CurrentUrl
    \/ Restore
    \/ BackupFile
    \/ EditFile
    \/ Tick

Spec == Init /\ [][Next]_vars

InitBench ==
    /\ \E n \in 0..MaxMirrors :
          /\ mirrors \in CandidateLists(n)
          /\ outcome \in [1..n -> Outcomes]
          /\ task = [i \in 1..n |-> "unpolled"]
          /\ res = [i \in 1..n |-> NoResult]
    /\ bpc = "idle"
    /\ finished = <<>>
    /\ progress = 0
    /\ output = <<>>
    /\ StoreIdle
    /\ CliIdle

NextBench ==
    \/ BenchmarkStart
    \/ \E i \in DOMAIN task : ProbeResolve(i)
    \/ BenchmarkReturn

SpecBench == InitBench /\ [][NextBench]_vars

\* The runs over the catalog's own list in which a mirror that answers with
\* success answers at once: each candidate succeeds, answers with a
\* non-success status, fails in the transport or stays silent.
InitCatalogBench ==
    /\ InitBench
    /\ \A i \in DOMAIN mirrors : mirrors[i] = Candidate(i) /\ outcome[i].ms = 0

\* Every in-flight request resolves (the client's timeout bounds the wait),
\* and the runtime polls join_all again once its futures are done.
FairSpecBench ==
    /\ InitCatalogBench /\ [][NextBench]_vars
    /\ WF_vars(\E i \in DOMAIN task : ProbeResolve(i))
    /\ WF_vars(BenchmarkReturn)

\* the names a command line gives for the adapter of the run
CliNames(t) == {t, "yarn"} \cup (IF t = "pip" THEN {"PIP"} ELSE {})

Commands(t) ==
    [command : {"status", "test", "restore"}, name : CliNames(t),
     source : {None}, fastest : {FALSE}]
    \cup [command : {"use"}, name : CliNames(t),
          source : {Some("official"), Some("Mirror1"), Some("nosuch")}, fastest : {FALSE}]
    \cup [command : {"use"}, name : CliNames(t), source : {None}, fastest : {TRUE}]

\* One command line over a fresh home or over a file the user already has,
\* with or without a backup an earlier run left.
InitCli ==
    /\ BenchIdle
    /\ tool \in Tools
    /\ distro \in (IF tool = "apt" THEN Distros ELSE {"ubuntu"})
    /\ \/ dir = FALSE /\ live = NoFile /\ snaps = <<>>
       \/ /\ dir = TRUE
          /\ live = File(InitialText(tool))
          /\ snaps \in {<<>>, (FirstSecond - 1) :> EditedText(tool)}
    /\ now = FirstSecond
    /\ hist = <<>>
    /\ ops = 0
    /\ env = NoEnvironment
    /\ cmd \in Commands(tool)
    /\ cpc = "idle"
    /\ exit = NoExit
    /\ shown = <<>>
    /\ before = Now

NextCli ==
    \/ HandleStatus
    \/ HandleTest
    \/ HandleTestPrint
    \/ HandleUse
    \/ HandleUseFastest
    \/ HandleRestore
    \/ \E i \in DOMAIN task : ProbeResolve(i)

SpecCli == InitCli /\ [][NextCli]_vars

\* the adapters without a file
EnvTools == {"go", "brew"}

\* go or brew, with whatever there is at the symbolic path: nothing, or a
\* file with a backup beside it
InitEnv ==
    /\ BenchIdle
    /\ tool \in EnvTools
    /\ distro = "ubuntu"
    /\ \/ dir = FALSE /\ live = NoFile /\ snaps = <<>>
       \/ dir = TRUE /\ live = NoFile /\ snaps = <<>>
       \/ /\ dir = TRUE
          /\ live = File(<<Comment("# live"), NL>>)
          /\ snaps = (FirstSecond - 1) :> <<Comment("# backup"), NL>>
    /\ now = FirstSecond
    /\ hist = <<>>
    /\ ops = 0
    /\ env \in [go : (IF tool = "go" THEN GoModes ELSE {"absent"}),
                GOPROXY : (IF tool = "go"
                           THEN {<<>>, <<"https://goproxy.test", "direct">>}
                           ELSE {<<>>}),
                HOMEBREW_API_DOMAIN : (IF tool = "brew"
                                       THEN {"", Candidate(2).url}
                                       ELSE {""})]
    /\ CliIdle

NextEnv ==
    \/ \E m \in StoreMirrors : EnvSetSource(m)
    \/ EnvCurrentUrl
    \/ EnvRestore

SpecEnv == InitEnv /\ [][NextEnv]_vars

(***************************************************************************)
(* Properties of benchmark_mirrors (of SpecBench; C6 of FairSpecBench).     *)
(***************************************************************************)
Returned == bpc = "returned"

CountIn(s, m) == Cardinality({i \in DOMAIN s : s[i] = m})

OutputMirrors == [k \in 1..Len(output) |-> output[k].mirror]

Failed(i) == outcome[i].kind # "ok"

\* C1: the sequence benchmark_mirrors returns is as long as its input and
\* holds every input mirror as often as the input does (nothing dropped,
\* nothing duplicated); an empty input yields an empty output.
C1_OutputIsPermutationOfInput ==
    Returned =>
        /\ Len(output) = Len(mirrors)
        /\ \A m \in Catalog : CountIn(OutputMirrors, m) = CountIn(mirrors, m)
        /\ (mirrors = <<>> => output = <<>>)

\* a run over a list with a repeated mirror and two equal latencies has returned
C1_Witness ==
    /\ Returned
    /\ Len(mirrors) >= 2
    /\ \E i, j \in DOMAIN mirrors :
          i # j /\ mirrors[i] = mirrors[j] /\ res[i].latency_ms = res[j].latency_ms

\* C2: the returned sequence is ascending by latency_ms and every
\* unreachable (u64::MAX) entry comes after every entry with a real latency;
\* outcomes (slow, no answer, fast) yield [third, first, second].
C2_SortedSentinelLast ==
    Returned =>
        /\ \A i, j \in DOMAIN output :
              i < j => output[i].latency_ms <= output[j].latency_ms
        /\ \A i, j \in DOMAIN output :
              (output[i].latency_ms = U64_MAX /\ output[j].latency_ms < U64_MAX)
                  => j < i
        /\ (/\ Len(mirrors) = 3
            /\ outcome[1].kind = "ok" /\ outcome[3].kind = "ok"
            /\ outcome[2].kind = "silent"
            /\ outcome[3].ms < outcome[1].ms)
           => output = << BenchmarkResult(mirrors[3], outcome[3].ms),
                          BenchmarkResult(mirrors[1], outcome[1].ms),
                          BenchmarkResult(mirrors[2], U64_MAX) >>

\* Official answers slowly, Mirror1 never, Mirror2 fast, and the run returned
C2_Witness ==
    /\ Returned
    /\ Len(mirrors) = 3
    /\ mirrors[1].name = "Official" /\ outcome[1] = [kind |-> "ok", ms |-> 1]
    /\ mirrors[2].name = "Mirror1" /\ outcome[2].kind = "silent"
    /\ mirrors[3].name = "Mirror2" /\ outcome[3] = [kind |-> "ok", ms |-> 0]
    /\ output[1].mirror.name = "Mirror2"

AllProbesDone == \A i \in DOMAIN task : task[i] = "done"

\* C3: benchmark_mirrors is a join-all barrier: it has returned, and holds
\* a sorted output, only when every probe future has completed.
C3_JoinAllBarrier ==
    (Returned \/ output # <<>>) =>
        /\ AllProbesDone
        /\ Len(finished) = Len(mirrors)
        /\ progress = Len(mirrors)

\* one probe has succeeded, one has failed, a third is still in flight, and
\* benchmark_mirrors is still waiting
C3_Witness ==
    /\ bpc = "joining"
    /\ output = <<>>
    /\ \E i, j, k \in DOMAIN task :
          /\ task[i] = "done" /\ ~Failed(i)
          /\ task[j] = "done" /\ Failed(j)
          /\ task[k] = "inflight"

\* the place of candidate i in a sort by (latency, position in the input)
Rank(i) ==
    1 + Cardinality({j \in DOMAIN res :
                        \/ res[j].latency_ms < res[i].latency_ms
                        \/ res[j].latency_ms = res[i].latency_ms /\ j < i})

\* C4: the returned order is a function of the input order and the
\* latencies alone, whatever the order the probes completed in.
C4_OrderIndependentOfCompletion ==
    Returned => \A i \in DOMAIN mirrors : output[Rank(i)] = res[i]

\* two different mirrors with equal latencies completed in the reverse of
\* their input order, and the run returned
C4_Witness ==
    /\ Returned
    /\ \E a, b \in DOMAIN finished :
          /\ a < b /\ finished[a] > finished[b]
          /\ mirrors[finished[a]] # mirrors[finished[b]]
          /\ res[finished[a]].latency_ms = res[finished[b]].latency_ms

\* C5: a probe whose request failed or was answered with a non-success
\* status resolves to a result with latency u64::MAX for its own mirror, and
\* the results of the other probes are what their own requests measured.
C5_FailureIsSentinel ==
    \A i \in DOMAIN task :
        task[i] = "done" =>
            /\ res[i].mirror = mirrors[i]
            /\ Failed(i) => res[i].latency_ms = U64_MAX
            /\ ~Failed(i) => res[i].latency_ms = outcome[i].ms

\* a run with a non-success status, a transport failure and a reachable
\* mirror has returned
C5_Witness ==
    /\ Returned
    /\ \E i, j, k \in DOMAIN outcome :
          /\ outcome[i].kind = "status"
          /\ outcome[j].kind = "err"
          /\ outcome[k].kind = "ok"

\* C6: every benchmark run terminates: once benchmark_mirrors waits in
\* join_all, every probe resolves and benchmark_mirrors returns.
C6_BenchmarkTerminates == (bpc = "joining") ~> Returned

\* a run with a target that never answers has returned
C6_Witness ==
    /\ Returned
    /\ \E i \in DOMAIN outcome : outcome[i].kind = "silent"

(***************************************************************************)
(* Properties of the backup store and the adapters (of Spec).              *)
(* An entry of hist holds the operation, its result, the live file before  *)
(* it (pre), the backups there were before it (had) and, for a restore,    *)
(* the backup it copied (picked).                                          *)
(***************************************************************************)
Last == hist[Len(hist)]

Applied(e, m) == e.op = "set_source" /\ e.url = m.url /\ e.result.ok

Restored(e) == e.op = "restore" /\ e.result.ok

\* C7: for pip, npm and cargo, set_source(A), set_source(B), restore, one
\* after the other, leave the file as set_source(A) left it: current_url
\* returns A's URL.
C7_RestoreUndoesOneStep ==
    \A a, b \in StoreMirrors :
        (/\ tool \in {"pip", "npm", "cargo"}
         /\ Len(hist) = 3
         /\ Applied(hist[1], a) /\ Applied(hist[2], b) /\ Restored(hist[3]))
            => /\ live = hist[2].pre
               /\ current_url(tool, live) = Ok(Some(a.url))

\* C8: backup_file while the file holds C, then an edit of the file to C',
\* then restore_latest_backup, leave the file holding C.
C8_BackupEditRestoreRoundTrip ==
    (/\ Len(hist) = 3
     /\ hist[1].op = "backup_file" /\ hist[1].pre.exists
     /\ hist[2].op = "edit"
     /\ Restored(hist[3]))
        => live = hist[1].pre

Greatest(ts) == CHOOSE t \in ts : \A u \in ts : u <= t

\* C9: restore_latest_backup copies, of the backups there are, the one with
\* the numerically greatest timestamp over the live file.
C9_RestoresGreatestTimestamp ==
    (hist # <<>> /\ Restored(Last))
        => /\ Last.picked = Greatest(Last.had)
           /\ live = File(snaps[Greatest(Last.had)])

\* C10: with no backup of the path, restore_latest_backup returns an error
\* ("No backup files found."; "Directory not found" when even the directory
\* is missing) and leaves the live file as it was; it returns Ok only after
\* it has copied a backup over the live file.
C10_NoBackupIsAnError ==
    (hist # <<>> /\ Last.op = "restore") =>
        /\ Last.had = {} =>
              /\ ~Last.result.ok
              /\ Last.result.err = (IF dir THEN "No backup files found."
                                           ELSE "Directory not found")
              /\ live = Last.pre
        /\ Last.result.ok =>
              /\ Last.picked \in Last.had
              /\ live = File(snaps[Last.picked])

\* restore was called on an existing file that has no backup: it failed and
\* the file is as it was
C10_Witness ==
    /\ hist # <<>>
    /\ Last.op = "restore"
    /\ Last.had = {}
    /\ Last.pre.exists
    /\ Last.result.err = "No backup files found."
    /\ live = Last.pre

\* the backups the last operation added
NewSnaps == DOMAIN snaps \ Last.had

\* C11: a successful set_source of a file-backed adapter (pip, npm, cargo,
\* docker, apt) creates exactly one new snapshot if the file existed with
\* non-empty content before the call, and none if the file did not exist or
\* was empty.
C11_OneSnapshotIffNonEmptyFile ==
    (hist # <<>> /\ Last.op = "set_source" /\ Last.result.ok) =>
        IF Last.pre.exists /\ Last.pre.text # <<>>
        THEN Cardinality(NewSnaps) = 1
        ELSE NewSnaps = {}

\* C12: a snapshot is never mutated after creation: no step of set_source,
\* backup_file or restore changes the content of an existing snapshot or
\* deletes one.
C12_SnapshotsAreImmutable ==
    [][\A t \in DOMAIN snaps : t \in DOMAIN snaps' /\ snaps'[t] = snaps[t]]_vars

\* the last operation is a successful set_source of the adapter t
Set(t) == hist # <<>> /\ tool = t /\ Last.op = "set_source" /\ Last.result.ok

\* C15: when the apt adapter's set_source runs on a file whose detected
\* current URL is U, every active source line whose URL is U is rewritten to
\* the new mirror's URL, and every line whose URL is different from U (a
\* security repository on another domain, say) is left unchanged.
C15_AptRewritesOnlyTheCurrentUrl ==
    (Set("apt") /\ AptCurrentUrl(Last.pre).v.some) =>
        LET U == AptCurrentUrl(Last.pre).v.v
            old == Last.pre.text
        IN /\ Len(live.text) = Len(old)
           /\ \A i \in DOMAIN old :
                 /\ (old[i].kind = "deb" /\ old[i].val = U)
                       => /\ live.text[i].kind = "deb"
                          /\ live.text[i].key = old[i].key
                          /\ SameUrl(live.text[i].val, Last.url)
                 /\ (old[i].kind \in {"deb", "deb-src"} /\ old[i].val # U)
                       => live.text[i] = old[i]

\* C16: the apt adapter's set_source on a sources file that does not exist
\* returns an error and has no effect (no file, no snapshot); for pip, npm,
\* cargo and docker the missing file (and directory) is created and
\* set_source succeeds.
C16_MissingFileOnWrite ==
    (hist # <<>> /\ Last.op = "set_source" /\ ~Last.pre.exists) =>
        IF tool = "apt"
        THEN /\ ~Last.result.ok
             /\ live = NoFile
             /\ DOMAIN snaps = Last.had
        ELSE /\ Last.result.ok
             /\ dir
             /\ live.exists

\* apt's set_source found neither the file nor its directory and failed
C16_Witness ==
    /\ hist # <<>>
    /\ tool = "apt"
    /\ Last.op = "set_source"
    /\ ~Last.pre.exists
    /\ Last.result = Err("Config file not found")
    /\ ~dir
    /\ live = NoFile

\* the content of the file does not parse in the adapter's format
MalformedFor(t, file) ==
    /\ file.exists
    /\ \/ t = "cargo" /\ ~from_str(file.text).ok
       \/ t = "docker" /\ ~json_from_str(file.text).ok

\* C17: for the structured-config adapters (cargo TOML, docker JSON),
\* set_source on a file whose content is syntactically malformed fails with
\* an error and does not overwrite the file.
C17_MalformedOnWriteIsAnError ==
    (hist # <<>> /\ Last.op = "set_source" /\ MalformedFor(tool, Last.pre)) =>
        /\ ~Last.result.ok
        /\ live = Last.pre

\* C18: for the structured-config adapters (cargo TOML, docker JSON),
\* current_url on a file whose content is syntactically malformed takes it as
\* an empty structure and returns Ok(None), not an error.
C18_MalformedOnReadIsNone ==
    (hist # <<>> /\ Last.op = "current_url" /\ MalformedFor(tool, Last.pre))
        => Last.result = Ok(None)

\* the key the adapter t sets
KeyOf(t) == IF t = "pip" THEN "index-url" ELSE "registry"

\* the run so far is set_source calls only, the first of them on no file
OnlySetSourceFromNoFile ==
    /\ hist # <<>>
    /\ ops = Len(hist)
    /\ ~hist[1].pre.exists
    /\ \A k \in DOMAIN hist : hist[k].op = "set_source"

\* C19: for the pip and npm adapters, starting from no config file, after
\* any non-empty sequence of set_source calls the file holds exactly one
\* assignment line of the key (index-url / registry), and that line carries
\* the URL of the last mirror applied.
C19_OneKeyLineWithLastUrl ==
    (tool \in {"pip", "npm"} /\ OnlySetSourceFromNoFile) =>
        /\ Last.result.ok
        /\ live.exists
        /\ Cardinality(KeyLines(live.text, KeyOf(tool))) = 1
        /\ \A i \in KeyLines(live.text, KeyOf(tool)) : live.text[i].val = Last.url

\* three set_source calls from no file, the second and the third with a
\* mirror other than the one before
C19_Witness ==
    /\ tool \in {"pip", "npm"}
    /\ OnlySetSourceFromNoFile
    /\ Len(hist) = 3
    /\ hist[1].url # hist[2].url
    /\ hist[2].url # hist[3].url
    /\ CapturedUrl(live, KeyOf(tool)) = Ok(Some(hist[3].url))

\* the lines of the text other than its line breaks and the assignments of key
OtherLines(text, key) ==
    LET Other(a) == a.kind # "nl" /\ ~(a.kind = "assign" /\ a.key = key)
    IN SelectSeq(text, Other)

\* a is b with some of b's elements left out
RECURSIVE IsSubSeq(_, _)
IsSubSeq(a, b) ==
    IF a = <<>> THEN TRUE
    ELSE IF b = <<>> THEN FALSE
    ELSE IF Head(a) = Head(b) THEN IsSubSeq(Tail(a), Tail(b))
    ELSE IsSubSeq(a, Tail(b))

\* C20: for the pip and npm adapters, set_source on an existing config file
\* leaves every line other than the key's assignment line unchanged and in
\* the same order, whether the key is replaced in place, injected under an
\* existing [global] section (pip), or appended.
C20_OtherLinesKept ==
    (hist # <<>> /\ tool \in {"pip", "npm"} /\ Last.op = "set_source" /\ Last.pre.exists) =>
        IsSubSeq(OtherLines(Last.pre.text, KeyOf(tool)), OtherLines(live.text, KeyOf(tool)))

\* C21: for the pip, npm and cargo adapters, after a successful
\* set_source(mirror) on any file state before it (no file, an empty file, a
\* file already configured), current_url returns exactly mirror's URL.
C21_ReadAfterWrite ==
    (hist # <<>> /\ tool \in {"pip", "npm", "cargo"}
       /\ Last.op = "set_source" /\ Last.result.ok)
        => current_url(tool, live) = Ok(Some(Last.url))

\* cargo's set_source ran on a file that replaced crates-io with another
\* source, and current_url now returns the mirror's URL
C21_Witness ==
    /\ Set("cargo")
    /\ Last.pre = File(EditedText("cargo"))
    /\ CargoCurrentUrl(Last.pre) = Ok(Some("sparse+https://ustc.test/index"))
    /\ CargoCurrentUrl(live) = Ok(Some(Last.url))

\* the items of a TOML document other than the two keys set_source sets
OtherItems(doc) ==
    {it \in doc.items :
        /\ ~(it.table = "source.crates-io" /\ it.key = "replace-with")
        /\ ~(it.table = "source.mirror" /\ it.key = "registry")}

\* the members of a JSON document other than registry-mirrors
OtherMembers(doc) == {m \in doc.members : m.key # "registry-mirrors"}

\* the last operation is a successful set_source of the adapter t on an
\* existing file
SetOnFile(t) == Set(t) /\ Last.pre.exists

\* C22: for the cargo and docker adapters, a successful set_source on a
\* well-formed existing config changes the mirror keys only (cargo:
\* source.crates-io.replace-with and source.mirror.registry; docker:
\* registry-mirrors, set to an array of one element) and keeps every other
\* table, key and value the file had.
C22_OnlyMirrorKeysChange ==
    /\ (SetOnFile("cargo") /\ from_str(Last.pre.text).ok) =>
          LET old == from_str(Last.pre.text)
              new == from_str(live.text)
          IN /\ new.ok
             /\ OtherItems(new) = OtherItems(old)
             /\ old.tables \subseteq new.tables
             /\ new.tables \subseteq
                   old.tables \cup {"source", "source.crates-io", "source.mirror"}
             /\ GetStr(new, "source.crates-io", "replace-with") = Some("mirror")
             /\ GetStr(new, "source.mirror", "registry") = Some(Last.url)
    /\ (SetOnFile("docker") /\ json_from_str(Last.pre.text).ok) =>
          LET old == json_from_str(Last.pre.text)
              new == json_from_str(live.text)
          IN /\ new.ok
             /\ new.kind = "object"
             /\ OtherMembers(new) = OtherMembers(old)
             /\ new.members \ OtherMembers(new)
                   = {ArrayOne("registry-mirrors", Last.url)}

\* docker's set_source ran on a file with a list of mirrors and a log level:
\* the list is the one mirror now and the log level is as it was
C22_Witness ==
    /\ SetOnFile("docker")
    /\ Last.pre = File(EditedText("docker"))
    /\ ArrayMany("registry-mirrors", "https://old.test") \in json_from_str(Last.pre.text).members
    /\ Member("log-level", "warn") \in json_from_str(live.text).members
    /\ ArrayOne("registry-mirrors", Last.url) \in json_from_str(live.text).members

\* C24: in set_source of every file-backed adapter the snapshot is taken
\* before the write: a backup the call creates or rewrites holds the content
\* the live file had just before the call, and a successful call on a
\* non-empty file leaves such a backup under the second of the call.
C24_SnapshotBeforeWrite ==
    [][(ops' = ops + 1 /\ hist'[Len(hist')].op = "set_source") =>
          /\ \A t \in DOMAIN snaps' :
                (t \notin DOMAIN snaps \/ snaps'[t] # snaps[t])
                    => live.exists /\ snaps'[t] = live.text
          /\ (hist'[Len(hist')].result.ok /\ live.exists /\ live.text # <<>>)
                => now \in DOMAIN snaps' /\ snaps'[now] = live.text]_vars

\* a set_source changed a non-empty file and the backup it added holds the
\* file as it was before
C24_Witness ==
    /\ hist # <<>>
    /\ Last.op = "set_source" /\ Last.result.ok
    /\ Last.pre.exists /\ Last.pre.text # <<>>
    /\ live # Last.pre
    /\ NewSnaps # {}
    /\ \A t \in NewSnaps : snaps[t] = Last.pre.text /\ snaps[t] # live.text

\* C26: restore does not consume or alter snapshots: a restore step leaves
\* the backups and their contents as they were, and a restore right after a
\* successful restore succeeds, copies the same backup and leaves the live
\* file as the first left it.
C26_RestoreKeepsSnapshots ==
    [][(ops' = ops + 1 /\ hist'[Len(hist')].op = "restore") =>
          /\ snaps' = snaps
          /\ (hist # <<>> /\ Restored(Last)) =>
                /\ hist'[Len(hist')].result.ok
                /\ hist'[Len(hist')].picked = Last.picked
                /\ live' = live]_vars

\* two restores in a row beside two backups of different content: both
\* copied the same backup and both backups are still there
C26_Witness ==
    /\ Len(hist) >= 2
    /\ Restored(hist[Len(hist) - 1])
    /\ Restored(Last)
    /\ Last.picked = hist[Len(hist) - 1].picked
    /\ Cardinality(DOMAIN snaps) >= 2
    /\ \E t, u \in DOMAIN snaps : snaps[t] # snaps[u]
    /\ DOMAIN snaps = hist[Len(hist) - 1].had
    /\ live = File(snaps[Last.picked])

\* C27: a set_source call of a file-backed adapter (pip, npm, cargo, docker,
\* apt) that returns an error has no effect on what is stored: the live
\* file is as it was and the call created no snapshot.
C27_FailedSetSourceHasNoEffect ==
    (/\ hist # <<>>
     /\ Last.op = "set_source"
     /\ ~Last.result.ok
     /\ Last.result.err # "panic")
        => /\ live = Last.pre
           /\ NewSnaps = {}

(***************************************************************************)
(* Properties of go and brew (of SpecEnv).                                 *)
(***************************************************************************)
\* C23: go and brew never attempt a file backup or a restore from one: no
\* set_source or restore of theirs creates or copies a backup or writes a
\* file at their symbolic config path, and brew's set_source and restore
\* always return Ok and write nothing at all.
C23_NoFileBackupOrRestore ==
    [][/\ Now' = Now
       /\ tool = "brew" =>
             /\ env' = env
             /\ hist'[Len(hist')].op \in {"set_source", "restore"}
                    => hist'[Len(hist')].result.ok]_vars

\* go's restore ran and succeeded beside a file with a backup, and the file
\* is not the backup
C23_Witness ==
    /\ tool = "go"
    /\ hist # <<>>
    /\ Restored(Last)
    /\ DOMAIN snaps # {}
    /\ live.exists
    /\ \A t \in DOMAIN snaps : live.text # snaps[t]
    /\ env.GOPROXY = <<>>
    /\ Now = before

(***************************************************************************)
(* Properties of the commands (of SpecCli).                                *)
(***************************************************************************)
Done == cpc = "done"

Untouched == Now = before /\ hist = <<>>

\* C13: in a use --fastest flow in which every candidate's probe result is
\* the sentinel, handle_use ends with an error that tells the user to check
\* the connection and never calls set_source: the configuration and the
\* snapshots are as they were.
C13_AllUnreachableIsAnError ==
    (/\ Done
     /\ cmd.command = "use" /\ cmd.fastest
     /\ get_manager(cmd.name).ok
     /\ \A i \in DOMAIN output : output[i].latency_ms = U64_MAX)
        => /\ exit = Err("All mirrors timed out. Please check your network connection.")
           /\ Untouched

\* use --fastest over an existing file ended after every probe failed, one
\* by a transport error and one by a non-success status or silence
C13_Witness ==
    /\ Done
    /\ cmd.command = "use" /\ cmd.fastest
    /\ live.exists
    /\ Len(output) >= 2
    /\ \A i \in DOMAIN output : output[i].latency_ms = U64_MAX
    /\ \E i, j \in DOMAIN outcome : outcome[i].kind = "err" /\ outcome[j].kind # "err"
    /\ ~exit.ok

\* C14: in every command (status, test, use, restore) an unknown tool name
\* is surfaced at once as an UnknownTool error that carries the list of the
\* supported names, and nothing of the command is executed for it.
C14_UnknownToolIsAnError ==
    (Done /\ ~get_manager(cmd.name).ok)
        => /\ exit = Err("Unknown tool: Unsupported tool: 'yarn'. Available: "
                             \o "pip, npm, docker, go, cargo, brew, apt")
           /\ Untouched
           /\ bpc = "idle"
           /\ shown = <<>>

\* C25: in a use --fastest flow in which at least one candidate is
\* reachable, the mirror handed to set_source is a reachable candidate whose
\* latency is the least of the reachable candidates' latencies; a candidate
\* with the sentinel latency is never applied.
C25_FastestIsMinimum ==
    (/\ Done
     /\ cmd.command = "use" /\ cmd.fastest
     /\ get_manager(cmd.name).ok
     /\ \E i \in DOMAIN res : res[i].latency_ms < U64_MAX)
        => /\ hist # <<>>
           /\ Last.op = "set_source"
           /\ \E i \in DOMAIN res :
                 /\ res[i].mirror.url = Last.url
                 /\ res[i].latency_ms < U64_MAX
                 /\ \A j \in DOMAIN res : res[i].latency_ms <= res[j].latency_ms

\* use --fastest ended after the second candidate answered faster than the
\* first, and the second candidate was applied
C25_Witness ==
    /\ Done
    /\ cmd.command = "use" /\ cmd.fastest
    /\ Len(res) = 2
    /\ res[2].latency_ms < res[1].latency_ms
    /\ res[1].latency_ms < U64_MAX
    /\ hist # <<>>
    /\ Applied(Last, res[2].mirror)
    /\ Last.url # res[1].mirror.url

====
